---- MODULE Spec2Model ----
(***************************************************************************)
(* rawdata_converter.py: prints a C array holding the RGB bytes of an      *)
(* image.  Text is modelled as sequences of one-character strings, so that *)
(* the formatting done by str(), "%02x" and str.split() is computed digit  *)
(* by digit and character by character.                                    *)
(***************************************************************************)
EXTENDS Integers, Sequences, FiniteSets, TLC

VARIABLES pc, args, filename, name, tmp, opened_path, org_img,
          org_w, org_h, yit, y, xit, x, r, g, b, stdout, exit_code

vars == <<pc, args, filename, name, tmp, opened_path, org_img,
          org_w, org_h, yit, y, xit, x, r, g, b, stdout, exit_code>>

(***************************************************************************)
(* Bounds of the model.                                                    *)
(***************************************************************************)
\* widest image the decoder hands over
MaxW == 4
\* tallest image the decoder hands over
MaxH == 2
\* most '.' characters in a command-line argument
MaxDots == 2

\* what stands between the dots of a command-line argument
Segments == {<<>>, <<"p">>}

\* the value of an integer name no assignment has bound yet
Unbound == 0 - 1

(***************************************************************************)
(* Text helpers: what Python's str(), % formatting, split and print do.    *)
(***************************************************************************)
DigitChars == <<"0", "1", "2", "3", "4", "5", "6", "7", "8", "9",
                "a", "b", "c", "d", "e", "f">>

\* str(n) for an int n >= 0: its decimal digits, most significant first
RECURSIVE Str(_)
Str(n) == IF n < 10 THEN <<DigitChars[n + 1]>>
          ELSE Str(n \div 10) \o <<DigitChars[(n % 10) + 1]>>

\* "%x" % v for v >= 0: lowercase hexadecimal digits, most significant first
RECURSIVE HexDigits(_)
HexDigits(v) == IF v < 16 THEN <<DigitChars[v + 1]>>
                ELSE HexDigits(v \div 16) \o <<DigitChars[(v % 16) + 1]>>

\* "%02x" % v: the hexadecimal digits, padded on the left with "0" to width 2
Hex02(v) == LET d == HexDigits(v)
            IN  IF Len(d) < 2 THEN <<"0">> \o d ELSE d

\* s.split(sep) for a one-character sep: the segments between the separators
RECURSIVE split(_, _)
split(s, sep) ==
    IF \E i \in 1..Len(s) : s[i] = sep
    THEN LET i == CHOOSE k \in 1..Len(s) :
                      s[k] = sep /\ \A j \in 1..(k - 1) : s[j] # sep
         IN  <<SubSeq(s, 1, i - 1)>> \o split(SubSeq(s, i + 1, Len(s)), sep)
    ELSE <<s>>

\* print(s, end=e) appended to what standard output already holds
print(out, s, e) == out \o s \o e

NL == <<"\n">>
NoEnd == <<>>

(***************************************************************************)
(* Literals of the program.                                                *)
(***************************************************************************)
darken == TRUE

DefaultFilename == <<"s", "r", "c", ".", "p", "n", "g">>
DefaultName == <<"s", "r", "c">>

\* sys.argv[0]: the script's own path
ScriptPath == <<"r", "c", ".", "p", "y">>

IncludeLine == <<"#", "i", "n", "c", "l", "u", "d", "e", " ",
                 "<", "s", "t", "d", "i", "n", "t", ".", "h", ">">>
DeclPrefix == <<"c", "o", "n", "s", "t", "e", "x", "p", "r", " ",
                "u", "i", "n", "t", "8", "_", "t", " ">>
DeclSuffix == <<"]", " ", "=", " ", "{">>
RowOpen == <<" ", " ", "{">>
RowCloseLast == <<" ", " ", "}">>
RowCloseMore == <<" ", " ", "}", ",">>
CloseLine == <<"}", ";">>

(***************************************************************************)
(* The image file and the decoder (PIL).                                   *)
(***************************************************************************)
\* largest value of an 8-bit channel
MaxChannel == 255

\* org_img before Image.open has returned
NoImage == [mode |-> "none", w |-> 0, h |-> 0, data |-> <<>>]

\* a w x h picture whose channel values count up from seed, pixel by pixel
Ramp(m, w, h, seed) ==
    [mode |-> m, w |-> w, h |-> h,
     data |-> [p \in (0..(w - 1)) \X (0..(h - 1)) |->
                 [c \in 1..3 |->
                    (seed + 3 * (p[2] * w + p[1]) + (c - 1)) % (MaxChannel + 1)]]]

\* the one-pixel picture (255, 128, 0)
OnePixel(m) ==
    [mode |-> m, w |-> 1, h |-> 1,
     data |-> [p \in {<<0, 0>>} |-> <<MaxChannel, 128, 0>>]]

\* the largest pictures sweep all channel values between them, the others
\* start at the bottom and near the top of the range
SeedsFor(w, h) ==
    IF w = MaxW /\ h = MaxH
    THEN { s \in 0..MaxChannel : s % (3 * w * h) = 0 }
    ELSE {0, 250}

ImageModes == {"RGB", "RGBA"}

\* the pictures a file may decode to, in a mode convert() has yet to normalize
Images ==
    { OnePixel(m) : m \in ImageModes } \cup
    UNION { { Ramp(m, w, h, s) : m \in ImageModes, s \in SeedsFor(w, h) } :
              w \in 1..MaxW, h \in 1..MaxH }

\* channel c (0 = R, 1 = G, 2 = B) of the decoded pixel (px, py)
Channel(img, px, py, c) == img.data[<<px, py>>][c + 1]

\* Image.convert('RGB'): same pixels, three channels
convert(img) == [img EXCEPT !.mode = "RGB"]

\* Image.size
size(img) == <<img.w, img.h>>

\* Image.getpixel((px, py)): one value per band of the mode
getpixel(img, px, py) ==
    IF img.mode = "RGB" THEN img.data[<<px, py>>]
    ELSE img.data[<<px, py>>] \o <<MaxChannel>>

(***************************************************************************)
(* The command line.                                                       *)
(***************************************************************************)
\* every argument of exactly n dots: n + 1 segments joined by "."
RECURSIVE StringsOfDots(_)
StringsOfDots(n) ==
    IF n = 0 THEN Segments
    ELSE { s \o <<".">> \o t : s \in StringsOfDots(n - 1), t \in Segments }

ArgStrings == UNION { StringsOfDots(n) : n \in 0..MaxDots }

\* further arguments after the path
ExtraArgs == {<<".", "p">>}

\* sys.argv: the script, then no argument, one, or two
ArgLists == {<<ScriptPath>>}
            \cup { <<ScriptPath, a>> : a \in ArgStrings }
            \cup { <<ScriptPath, a, e>> : a \in ArgStrings, e \in ExtraArgs }

(***************************************************************************)
(* Pieces of the program that the actions below are built from.            *)
(***************************************************************************)
\* variant: the comparison written as 2 < len(args)
HasPathArgStrict(a) == 2 < Len(a)

\* line 15: 2 <= len(args)
HasPathArg(a) == 2 <= Len(a)

\* line 16: args[1]
PathArg(a) == a[2]

\* variant: the extension alone cut off, as rsplit('.', 1)[0] would
DeriveNameLastDot(arg) ==
    IF \E i \in 1..Len(arg) : arg[i] = "."
    THEN SubSeq(arg, 1, (CHOOSE k \in 1..Len(arg) :
                    arg[k] = "." /\ \A j \in (k + 1)..Len(arg) : arg[j] # ".") - 1)
    ELSE arg

\* lines 17-18: tmp = args[1].split('.'); name = tmp[0]
DeriveName(arg) == split(arg, ".")[1]

\* variant: v // 4
DarkenBy4(v) == v \div 4

\* variant: halving that rounds up
DarkenRoundUp(v) == (v + 1) \div 2

\* lines 31-34: v // 2 when darken is set
Darken(v) == IF darken THEN v \div 2 ELSE v

\* variant: width and height exchanged
DeclLineSwapped(n, w, h) ==
    DeclPrefix \o n \o <<"[">> \o Str(w) \o <<"]", "[">> \o Str(3 * h) \o DeclSuffix

\* line 25: "constexpr uint8_t " + name + "[" + str(org_h) + "][" + str(3*org_w) + "] = {"
DeclLine(n, w, h) ==
    DeclPrefix \o n \o <<"[">> \o Str(h) \o <<"]", "[">> \o Str(3 * w) \o DeclSuffix

\* variant: "%x" in place of "%02x"
PixelTextNoPad(pr, pg, pb) ==
    <<" ", "0", "x">> \o HexDigits(pr) \o <<",", " ", "0", "x">> \o HexDigits(pg)
        \o <<",", " ", "0", "x">> \o HexDigits(pb)

\* line 36: " 0x%02x, 0x%02x, 0x%02x" % (r, g, b)
PixelText(pr, pg, pb) ==
    <<" ", "0", "x">> \o Hex02(pr) \o <<",", " ", "0", "x">> \o Hex02(pg)
        \o <<",", " ", "0", "x">> \o Hex02(pb)

\* variant: a range one value short
InRangeOneShort(i, n) == i < n - 1

\* lines 26, 28: range(n) still has the value i to hand out
InRange(i, n) == i < n

\* variant: x != org_w, true of every x of the row
CommaBeforeWidth(px, w) == px # w

\* line 37: x != org_w - 1
CommaAfterPixel(px, w) == px # w - 1

\* variant: y == org_h, true of no row
RowCloseTextOffByOne(py, h) == IF py = h THEN RowCloseLast ELSE RowCloseMore

\* lines 40-43: "  }" for the last row, "  }," for the others
RowCloseText(py, h) == IF py = h - 1 THEN RowCloseLast ELSE RowCloseMore

(***************************************************************************)
(* The program, statement by statement.                                    *)
(***************************************************************************)
Init ==
    /\ pc = "args"
    /\ args \in ArgLists
    /\ filename = <<>>
    /\ name = <<>>
    /\ tmp = <<>>
    /\ opened_path = <<>>
    /\ org_img = NoImage
    /\ org_w = Unbound
    /\ org_h = Unbound
    /\ yit = Unbound
    /\ y = Unbound
    /\ xit = Unbound
    /\ x = Unbound
    /\ r = Unbound
    /\ g = Unbound
    /\ b = Unbound
    /\ stdout = <<>>
    /\ exit_code = Unbound

\* lines 12-18, all but what they leave on standard output
ParseArgsEffect ==
    /\ pc = "args"
    /\ IF HasPathArg(args)
       THEN /\ filename' = PathArg(args)
            /\ tmp' = split(PathArg(args), ".")
            /\ name' = DeriveName(PathArg(args))
       ELSE /\ filename' = DefaultFilename
            /\ name' = DefaultName
            /\ tmp' = tmp
    /\ pc' = "open"
    /\ UNCHANGED <<args, opened_path, org_img, org_w, org_h, yit, y, xit, x,
                   r, g, b, exit_code>>

\* variant: the include line printed before the image is opened
ParseArgsHeaderFirst ==
    /\ ParseArgsEffect
    /\ stdout' = print(stdout, IncludeLine, NL)

\* lines 12-18: the file to open and the array's name
ParseArgs ==
    /\ ParseArgsEffect
    /\ UNCHANGED stdout

\* line 20: Image.open(filename) returns an image
ImageOpen ==
    /\ pc = "open"
    /\ \E img \in Images : org_img' = img
    /\ opened_path' = filename
    /\ pc' = "convert"
    /\ UNCHANGED <<args, filename, name, tmp, org_w, org_h, yit, y, xit, x,
                   r, g, b, stdout, exit_code>>

\* line 20: Image.open(filename) raises; the interpreter exits with status 1
ImageOpenFail ==
    /\ pc = "open"
    /\ opened_path' = filename
    /\ pc' = "failed"
    /\ exit_code' = 1
    /\ UNCHANGED <<args, filename, name, tmp, org_img, org_w, org_h, yit, y,
                   xit, x, r, g, b, stdout>>

\* line 21: org_img.convert('RGB') decodes the pixels
ImageConvert ==
    /\ pc = "convert"
    /\ org_img' = convert(org_img)
    /\ pc' = "size"
    /\ UNCHANGED <<args, filename, name, tmp, opened_path, org_w, org_h, yit,
                   y, xit, x, r, g, b, stdout, exit_code>>

\* line 21: the pixel data does not decode; the interpreter exits with status 1
ImageConvertFail ==
    /\ pc = "convert"
    /\ pc' = "failed"
    /\ exit_code' = 1
    /\ UNCHANGED <<args, filename, name, tmp, opened_path, org_img, org_w,
                   org_h, yit, y, xit, x, r, g, b, stdout>>

\* line 22: org_w, org_h = org_img.size
ReadSize ==
    /\ pc = "size"
    /\ org_w' = size(org_img)[1]
    /\ org_h' = size(org_img)[2]
    /\ pc' = "header"
    /\ UNCHANGED <<args, filename, name, tmp, opened_path, org_img, yit, y,
                   xit, x, r, g, b, stdout, exit_code>>

\* line 24
PrintHeader ==
    /\ pc = "header"
    /\ stdout' = print(stdout, IncludeLine, NL)
    /\ pc' = "decl"
    /\ UNCHANGED <<args, filename, name, tmp, opened_path, org_img, org_w,
                   org_h, yit, y, xit, x, r, g, b, exit_code>>

\* line 25, and range(org_h) set up by line 26
PrintDecl ==
    /\ pc = "decl"
    /\ stdout' = print(stdout, DeclLine(name, org_w, org_h), NL)
    /\ yit' = 0
    /\ pc' = "fory"
    /\ UNCHANGED <<args, filename, name, tmp, opened_path, org_img, org_w,
                   org_h, y, xit, x, r, g, b, exit_code>>

\* lines 26-27: the next y of range(org_h), the row's opening, range(org_w)
RowBegin ==
    /\ pc = "fory"
    /\ InRange(yit, org_h)
    /\ y' = yit
    /\ yit' = yit + 1
    /\ stdout' = print(stdout, RowOpen, NoEnd)
    /\ xit' = 0
    /\ pc' = "forx"
    /\ UNCHANGED <<args, filename, name, tmp, opened_path, org_img, org_w,
                   org_h, x, r, g, b, exit_code>>

\* lines 28-38: the next x of range(org_w), its pixel, darkened and printed
Pixel ==
    /\ pc = "forx"
    /\ InRange(xit, org_w)
    /\ LET p == getpixel(org_img, xit, y)
       IN  /\ Len(p) = 3
           /\ r' = Darken(p[1])
           /\ g' = Darken(p[2])
           /\ b' = Darken(p[3])
    /\ x' = xit
    /\ xit' = xit + 1
    /\ stdout' = print(print(stdout, PixelText(r', g', b'), NoEnd),
                       IF CommaAfterPixel(xit, org_w) THEN <<",">> ELSE <<>>,
                       NoEnd)
    /\ UNCHANGED <<pc, args, filename, name, tmp, opened_path, org_img, org_w,
                   org_h, yit, y, exit_code>>

\* lines 28, 40-43: range(org_w) is exhausted; the row's closing
RowEnd ==
    /\ pc = "forx"
    /\ ~InRange(xit, org_w)
    /\ stdout' = print(stdout, RowCloseText(y, org_h), NL)
    /\ pc' = "fory"
    /\ UNCHANGED <<args, filename, name, tmp, opened_path, org_img, org_w,
                   org_h, yit, y, xit, x, r, g, b, exit_code>>

\* lines 26, 45: range(org_h) is exhausted; the closing line, then exit 0
PrintClose ==
    /\ pc = "fory"
    /\ ~InRange(yit, org_h)
    /\ stdout' = print(stdout, CloseLine, NL)
    /\ pc' = "done"
    /\ exit_code' = 0
    /\ UNCHANGED <<args, filename, name, tmp, opened_path, org_img, org_w,
                   org_h, yit, y, xit, x, r, g, b>>

Next ==
    \/ ParseArgs
    \/ ImageOpen
    \/ ImageOpenFail
    \/ ImageConvert
    \/ ImageConvertFail
    \/ ReadSize
    \/ PrintHeader
    \/ PrintDecl
    \/ RowBegin
    \/ Pixel
    \/ RowEnd
    \/ PrintClose

Spec == Init /\ [][Next]_vars

\* the interpreter runs the next statement as long as there is one
FairSpec == Spec /\ WF_vars(Next)

(***************************************************************************)
(* Reading standard output back: lines, the declaration's parts, a row's   *)
(* tokens.  None of this uses the operators the program is built from.     *)
(***************************************************************************)
\* the indices at which s holds c
Positions(s, c) == { k \in 1..Len(s) : s[k] = c }

\* the first index >= i at which s holds c, or 0
IndexFrom(s, c, i) ==
    LET at == { k \in i..Len(s) : s[k] = c }
    IN  IF at = {} THEN 0 ELSE CHOOSE k \in at : \A j \in at : k <= j

\* the numbers of S in ascending order
RECURSIVE Ascending(_)
Ascending(S) ==
    IF S = {} THEN <<>>
    ELSE LET m == CHOOSE k \in S : \A j \in S : k <= j
         IN  <<m>> \o Ascending(S \ {m})

\* the pieces of s between the occurrences of c
Pieces(s, c) ==
    LET at == Ascending(Positions(s, c))
        n == Len(at)
    IN  [k \in 1..(n + 1) |->
           SubSeq(s, IF k = 1 THEN 1 ELSE at[k - 1] + 1,
                     IF k = n + 1 THEN Len(s) ELSE at[k] - 1)]

\* the lines standard output holds, the unfinished last one (maybe empty) too
AllLines(out) == Pieces(out, "\n")

\* the lines a newline has ended
CompleteLines(out) == LET l == AllLines(out) IN SubSeq(l, 1, Len(l) - 1)

\* what a newline has not ended yet
OpenLine(out) == LET l == AllLines(out) IN l[Len(l)]

\* s without the spaces at its two ends
Trim(s) ==
    LET ink == { k \in 1..Len(s) : s[k] # " " }
    IN  IF ink = {} THEN <<>>
        ELSE SubSeq(s, CHOOSE k \in ink : \A j \in ink : k <= j,
                       CHOOSE k \in ink : \A j \in ink : k >= j)

\* the texts of list joined by sep
RECURSIVE Join(_, _)
Join(list, sep) ==
    IF list = <<>> THEN <<>>
    ELSE IF Len(list) = 1 THEN list[1]
    ELSE list[1] \o sep \o Join(Tail(list), sep)

StartsWith(s, prefix) ==
    Len(s) >= Len(prefix) /\ SubSeq(s, 1, Len(prefix)) = prefix

EndsWith(s, suffix) ==
    Len(s) >= Len(suffix)
    /\ SubSeq(s, Len(s) - Len(suffix) + 1, Len(s)) = suffix

DecimalDigits == <<"0", "1", "2", "3", "4", "5", "6", "7", "8", "9">>
LowerHexDigits == DecimalDigits \o <<"a", "b", "c", "d", "e", "f">>

DigitValue(c, digits) == (CHOOSE k \in 1..Len(digits) : digits[k] = c) - 1

IsNumeral(s, digits) ==
    /\ s # <<>>
    /\ \A i \in 1..Len(s) : \E k \in 1..Len(digits) : digits[k] = s[i]

\* the number a numeral over the given digits denotes
RECURSIVE NumeralValue(_, _)
NumeralValue(s, digits) ==
    IF s = <<>> THEN 0
    ELSE Len(digits) * NumeralValue(SubSeq(s, 1, Len(s) - 1), digits)
         + DigitValue(s[Len(s)], digits)

\* a decimal numeral as str() writes it: no leading zero
IsPlainDecimal(s) ==
    IsNumeral(s, DecimalDigits) /\ (Len(s) > 1 => s[1] # "0")

\* line is 'constexpr uint8_t <nm>[<d1>][<d2>] = {' with decimal d1, d2 denoting
\* dim1 and dim2
IsDeclaration(line, nm, dim1, dim2) ==
    LET head == <<"c", "o", "n", "s", "t", "e", "x", "p", "r", " ",
                  "u", "i", "n", "t", "8", "_", "t", " ">> \o nm \o <<"[">>
        i == Len(head)
        j == IndexFrom(line, "]", i + 1)
        k == IndexFrom(line, "]", j + 1)
        d1 == SubSeq(line, i + 1, j - 1)
        d2 == SubSeq(line, j + 2, k - 1)
    IN  /\ StartsWith(line, head)
        /\ j > 0
        /\ k > 0
        /\ line = head \o d1 \o <<"]", "[">> \o d2 \o <<"]", " ", "=", " ", "{">>
        /\ IsPlainDecimal(d1) /\ NumeralValue(d1, DecimalDigits) = dim1
        /\ IsPlainDecimal(d2) /\ NumeralValue(d2, DecimalDigits) = dim2

\* a row line's text between its '{' and its '}'
RowBody(line) ==
    SubSeq(line, IndexFrom(line, "{", 1) + 1, IndexFrom(line, "}", 1) - 1)

\* a row line's text after its '}'
RowTail(line) == SubSeq(line, IndexFrom(line, "}", 1) + 1, Len(line))

IsRowLine(line) ==
    /\ StartsWith(line, <<" ", " ", "{">>)
    /\ IndexFrom(line, "}", 1) > 0

\* the comma-separated items of a row, spaces around each dropped
Tokens(line) ==
    LET pieces == Pieces(RowBody(line), ",")
    IN  [k \in 1..Len(pieces) |-> Trim(pieces[k])]

\* '0x' and exactly two lowercase hexadecimal digits
IsByteToken(t) ==
    /\ Len(t) = 4
    /\ t[1] = "0" /\ t[2] = "x"
    /\ IsNumeral(SubSeq(t, 3, 4), LowerHexDigits)

TokenValue(t) == NumeralValue(SubSeq(t, 3, Len(t)), LowerHexDigits)

\* the row numbers 0, 1, ... whose line is among the finished lines L
Rows(L) == { yy \in 0..(org_img.h - 1) : Len(L) >= yy + 3 }

DeclarationOut == Cardinality(Positions(stdout, "\n")) >= 2

Loaded == org_w # Unbound /\ org_h # Unbound /\ org_img.mode = "RGB"

Terminated == pc \in {"done", "failed"}

\* the part of s before its first '.', all of s when it has none
BeforeFirstDot(s) ==
    LET k == IndexFrom(s, ".", 1)
    IN  IF k = 0 THEN s ELSE SubSeq(s, 1, k - 1)

\* Image.open has been called
OpenCalled == pc \notin {"args", "open"}

(***************************************************************************)
(* The claims.                                                             *)
(***************************************************************************)

\* C1: once the declaration line is out, it reads exactly
\* 'constexpr uint8_t <name>[<H>][<3*W>] = {' with H the image's height and W
\* its width, both in decimal, height first.
C1_DeclaredDimensions ==
    DeclarationOut =>
        IsDeclaration(CompleteLines(stdout)[2], name, org_img.h, 3 * org_img.w)

\* C1 witness: the declaration of a 4 x 2 image (dimensions [2][12]) is out.
C1_Witness ==
    /\ DeclarationOut
    /\ org_img.w = 4 /\ org_img.h = 2
    /\ C1_DeclaredDimensions

\* C2: with darken set, in every finished row y the token at position 3*x + c
\* is '0x' and two lowercase hexadecimal digits denoting floor(v / 2), v being
\* channel c of the decoded pixel (x, y); the value lies in 0..127.
C2_TokensAreHalvedChannels ==
    darken =>
        LET L == CompleteLines(stdout)
        IN  \A yy \in Rows(L) :
              LET toks == Tokens(L[yy + 3])
              IN  \A xx \in 0..(org_img.w - 1) : \A c \in 0..2 :
                      LET pos == 3 * xx + c + 1
                      IN  /\ pos <= Len(toks)
                          /\ IsByteToken(toks[pos])
                          /\ TokenValue(toks[pos])
                                = Channel(org_img, xx, yy, c) \div 2
                          /\ TokenValue(toks[pos]) \in 0..127

\* C2 witness: a finished run over an image at least 2 x 2 holding an odd
\* channel value and a value whose half needs the padding zero.
C2_Witness ==
    /\ pc = "done"
    /\ org_img.w >= 2 /\ org_img.h >= 2
    /\ \E xx \in 0..(org_img.w - 1), yy \in 0..(org_img.h - 1), c \in 0..2 :
          Channel(org_img, xx, yy, c) % 2 = 1
    /\ \E xx \in 0..(org_img.w - 1), yy \in 0..(org_img.h - 1), c \in 0..2 :
          Channel(org_img, xx, yy, c) < 32
    /\ C2_TokensAreHalvedChannels

\* C3: every finished row line but the last ends in '},' and the line of row
\* H - 1 ends in '}' with no comma after it.
C3_RowClosing ==
    LET L == CompleteLines(stdout)
    IN  \A yy \in Rows(L) :
          /\ IsRowLine(L[yy + 3])
          /\ RowTail(L[yy + 3]) = IF yy = org_img.h - 1 THEN <<>> ELSE <<",">>

\* C3 witness: both rows of a two-row image are out, the first closed by
\* '},' and the last by '}'.
C3_Witness ==
    LET L == CompleteLines(stdout)
    IN  /\ org_img.h = 2
        /\ Rows(L) = {0, 1}
        /\ EndsWith(L[3], <<"}", ",">>)
        /\ EndsWith(L[4], <<"}">>)

\* C4: between '{' and '}' a finished row holds, inside its padding spaces,
\* exactly 3*W byte tokens joined by ', ': the same separator within a pixel
\* and between pixels, and no comma after the last token.
C4_UniformSeparator ==
    LET L == CompleteLines(stdout)
    IN  \A yy \in Rows(L) :
          LET toks == Tokens(L[yy + 3])
          IN  /\ Len(toks) = 3 * org_img.w
              /\ \A k \in 1..Len(toks) : IsByteToken(toks[k])
              /\ Trim(RowBody(L[yy + 3])) = Join(toks, <<",", " ">>)

\* C4 witness: a finished row of an image at least two pixels wide.
C4_Witness ==
    LET L == CompleteLines(stdout)
    IN  /\ org_img.w >= 2
        /\ Rows(L) # {}
        /\ Len(Tokens(L[3])) >= 6

\* C5: with a path argument, the name is the argument up to its first '.'
\* (all of it when it has none), in the name variable and in the declaration,
\* while the file opened is the whole argument.
C5_NameBeforeFirstDot ==
    (Len(args) >= 2 /\ pc # "args") =>
        /\ name = BeforeFirstDot(args[2])
        /\ filename = args[2]
        /\ OpenCalled => opened_path = args[2]
        /\ DeclarationOut =>
              StartsWith(CompleteLines(stdout)[2],
                         <<"c", "o", "n", "s", "t", "e", "x", "p", "r", " ",
                           "u", "i", "n", "t", "8", "_", "t", " ">>
                           \o BeforeFirstDot(args[2]) \o <<"[">>)

\* C5 witness: the argument 'p.p.p' gave the name 'p' and the file 'p.p.p'.
C5_Witness ==
    /\ pc = "done"
    /\ Len(args) >= 2
    /\ args[2] = <<"p", ".", "p", ".", "p">>
    /\ name = <<"p">>
    /\ opened_path = <<"p", ".", "p", ".", "p">>

\* C6: a run that fails to open or decode its file ends with a non-zero
\* status and nothing on standard output; nothing is written before the
\* image is opened, converted to RGB and its size read.
C6_NoOutputOnFailure ==
    /\ pc = "failed" => (stdout = <<>> /\ exit_code # 0)
    /\ stdout # <<>> => Loaded

\* C6 witness: Image.open was called and the run failed.
C6_Witness ==
    /\ pc = "failed"
    /\ OpenCalled
    /\ stdout = <<>>

\* C7: doubling an emitted value gives the original channel or one less:
\* |2*e - v| <= 1 for every token of every finished row.
C7_RoundTripWithinOne ==
    LET L == CompleteLines(stdout)
    IN  \A yy \in Rows(L) :
          LET toks == Tokens(L[yy + 3])
          IN  \A xx \in 0..(org_img.w - 1) : \A c \in 0..2 :
                  LET e == TokenValue(toks[3 * xx + c + 1])
                      v == Channel(org_img, xx, yy, c)
                  IN  /\ 3 * xx + c + 1 <= Len(toks)
                      /\ 2 * e - v \in {0 - 1, 0, 1}

\* C7 witness: the channel 255 came out as 0x7f, whose double is 254.
C7_Witness ==
    LET L == CompleteLines(stdout)
    IN  /\ Rows(L) # {}
        /\ Channel(org_img, 0, 0, 0) = 255
        /\ Tokens(L[3])[1] = <<"0", "x", "7", "f">>

\* the 1 x 1 image of the pixel (255, 128, 0), named 'src', run to the end
C8_Case ==
    /\ pc = "done"
    /\ org_img.w = 1 /\ org_img.h = 1
    /\ Channel(org_img, 0, 0, 0) = 255
    /\ Channel(org_img, 0, 0, 1) = 128
    /\ Channel(org_img, 0, 0, 2) = 0
    /\ name = <<"s", "r", "c">>

C8_Output ==
    <<"#", "i", "n", "c", "l", "u", "d", "e", " ",
      "<", "s", "t", "d", "i", "n", "t", ".", "h", ">", "\n",
      "c", "o", "n", "s", "t", "e", "x", "p", "r", " ",
      "u", "i", "n", "t", "8", "_", "t", " ", "s", "r", "c",
      "[", "1", "]", "[", "3", "]", " ", "=", " ", "{", "\n",
      " ", " ", "{", " ", "0", "x", "7", "f", ",", " ", "0", "x", "4", "0",
      ",", " ", "0", "x", "0", "0", " ", " ", "}", "\n",
      "}", ";", "\n">>

\* C8: for the 1 x 1 image of the pixel (255, 128, 0) and the name 'src' the
\* whole output is the four lines '#include <stdint.h>',
\* 'constexpr uint8_t src[1][3] = {', '  { 0x7f, 0x40, 0x00  }' and '};'.
C8_OnePixelExample == C8_Case => stdout = C8_Output

\* C8 witness: that run has ended with that output.
C8_Witness == C8_Case /\ stdout = C8_Output

\* C9: with no argument the file is 'src.png' and the name 'src'; with
\* arguments the first alone gives both; the declared dimensions are those of
\* the file opened.
C9_DefaultsAndFirstArgument ==
    pc # "args" =>
        LET path == IF Len(args) = 1
                    THEN <<"s", "r", "c", ".", "p", "n", "g">> ELSE args[2]
            nm == IF Len(args) = 1
                  THEN <<"s", "r", "c">> ELSE BeforeFirstDot(args[2])
        IN  /\ filename = path
            /\ name = nm
            /\ OpenCalled => opened_path = path
            /\ DeclarationOut =>
                  IsDeclaration(CompleteLines(stdout)[2], nm,
                                org_img.h, 3 * org_img.w)

\* C9 witness: a run without arguments has opened 'src.png' and declared
\* 'src' with the file's dimensions.
C9_Witness ==
    /\ Len(args) = 1
    /\ pc = "done"
    /\ opened_path = <<"s", "r", "c", ".", "p", "n", "g">>
    /\ org_img.w = 4 /\ org_img.h = 2
    /\ IsDeclaration(CompleteLines(stdout)[2], <<"s", "r", "c">>, 2, 12)

\* what standard output holds is a beginning of: the include line, the
\* declaration, the rows 0..H-1 each with its pixels 0..W-1 in order, '};'
C10_Shape ==
    LET L == CompleteLines(stdout)
        h == org_img.h
        w == org_img.w
    IN  /\ stdout # <<>> => Loaded
        /\ Len(L) <= h + 3
        /\ \A k \in 1..Len(L) :
              /\ k = 1 => L[k] = <<"#", "i", "n", "c", "l", "u", "d", "e", " ",
                                   "<", "s", "t", "d", "i", "n", "t", ".", "h", ">">>
              /\ k = 2 => IsDeclaration(L[k], name, h, 3 * w)
              /\ (3 <= k /\ k <= h + 2) =>
                    LET toks == Tokens(L[k])
                    IN  /\ IsRowLine(L[k])
                        /\ Len(toks) = 3 * w
                        /\ \A xx \in 0..(w - 1) : \A c \in 0..2 :
                              /\ IsByteToken(toks[3 * xx + c + 1])
                              /\ TokenValue(toks[3 * xx + c + 1])
                                    = Channel(org_img, xx, k - 3, c) \div 2
              /\ k = h + 3 => L[k] = <<"}", ";">>
        /\ pc = "done" => (Len(L) = h + 3 /\ OpenLine(stdout) = <<>>)
        /\ (Loaded /\ Len(L) = h + 3) => pc = "done"

\* C10: a loaded W x H image leads to the end of the run, and the output is
\* then the include line, the declaration, the H rows in ascending order and
\* '};', H + 3 lines, as many rows and tokens as declared; at no moment is
\* there a row before the declaration or after the closing line.
C10_OrderAndTermination == [](C10_Shape) /\ (Loaded ~> pc = "done")

\* C10 witness: the run over a 2-row, 2-pixel-wide image ended with 5 lines.
C10_Witness ==
    /\ pc = "done"
    /\ org_img.w = 2 /\ org_img.h = 2
    /\ Len(CompleteLines(stdout)) = 5

====
